---------------------------- MODULE Spec2Model ----------------------------
(***************************************************************************)
(* A model of simplefs-gcs (src/gcs_fs.go): the simplefs file-system       *)
(* interface laid over a flat bucket of objects.                           *)
(*                                                                         *)
(* A string is a sequence of one-character strings, so that the prefix     *)
(* arithmetic of ReadDir (attrs.Name[n+1:]) and the cleaning done by       *)
(* path.Join are computed character by character.                          *)
(***************************************************************************)
EXTENDS Naturals, Sequences, FiniteSets

\* Longest content (in bytes) a write stream is driven to.
MaxLen == 2
\* Most objects the bucket is driven to hold.
MaxObjects == 3

\* The bytes each caller writes.
BytesOf(c) == IF c = "c1" THEN {1} ELSE {2}
\* Callers of the file system; each holds at most one write stream at a time.
Clients == {"c1", "c2"}
\* Values of fs.prefix given to New.
Roots == {<< >>, <<"r">>}
\* Logical paths given to Create, Append and Open.
StreamNames == {<<"a">>, <<".", "/", "a", "/">>}
\* Logical paths given to Create in the directory runs.
DirFiles ==
    { <<"d">>, <<"d", "a">>, <<"d", "/", "a">>, <<"d", "/", "b">>,
      <<"d", "b", "a">>, <<"d", "/", "a", "/", "b">>, <<"d", "/", "/", "b">> }
\* Logical paths given to ReadDir.
DirNames == { << >>, <<"d">>, <<"d", "/">>, <<"d", "/", "a">>, <<"b">> }

None == "none"

VARIABLES
    fsErr,      \* fs.err # nil: storage.NewClient failed in New
    fsPrefix,   \* fs.prefix
    store,      \* the bucket: object key -> object content
    writers,    \* client -> the write stream it holds, or NoWriter
    commit,     \* history: the last Close that stored an object
    last        \* the last call and what it returned

vars == <<fsErr, fsPrefix, store, writers, commit, last>>

---------------------------------------------------------------------------
(* Strings *)

\* Byte value of a character (the order sort.StringSlice compares by).
Ord(c) ==
    CASE c = "." -> 46
      [] c = "/" -> 47
      [] c = "a" -> 97
      [] c = "b" -> 98
      [] c = "d" -> 100
      [] c = "r" -> 114

RECURSIVE StrLess(_, _)
\* s < t as Go compares strings: byte-wise, a proper prefix first.
StrLess(s, t) ==
    IF t = << >> THEN FALSE
    ELSE IF s = << >> THEN TRUE
    ELSE IF Ord(Head(s)) # Ord(Head(t)) THEN Ord(Head(s)) < Ord(Head(t))
    ELSE StrLess(Tail(s), Tail(t))

\* strings.HasPrefix(k, p): what a storage.Query{Prefix: p} matches.
HasPrefix(k, p) == Len(k) >= Len(p) /\ SubSeq(k, 1, Len(p)) = p

\* strings.Count(s, "/")
CountSep(s) == Cardinality({i \in 1..Len(s) : s[i] = "/"})

RECURSIVE SplitRec(_, _, _, _)
SplitRec(p, i, cur, acc) ==
    IF i > Len(p) THEN Append(acc, cur)
    ELSE IF p[i] = "/" THEN SplitRec(p, i + 1, << >>, Append(acc, cur))
    ELSE SplitRec(p, i + 1, Append(cur, p[i]), acc)

\* The elements of p between its separators (empty elements included).
Split(p) == SplitRec(p, 1, << >>, << >>)

RECURSIVE CleanRec(_, _, _, _)
\* path.Clean's pass over the elements: drop "" and ".", let ".." remove
\* the element before it (at the root it disappears, in a relative path
\* with nothing before it it stays).
CleanRec(comps, i, stack, rooted) ==
    IF i > Len(comps) THEN stack
    ELSE LET e == comps[i] IN
         IF e = << >> \/ e = <<".">> THEN CleanRec(comps, i + 1, stack, rooted)
         ELSE IF e = <<".", ".">> THEN
              IF stack # << >> /\ stack[Len(stack)] # <<".", ".">>
                  THEN CleanRec(comps, i + 1, SubSeq(stack, 1, Len(stack) - 1), rooted)
              ELSE IF rooted THEN CleanRec(comps, i + 1, stack, rooted)
              ELSE CleanRec(comps, i + 1, Append(stack, e), rooted)
         ELSE CleanRec(comps, i + 1, Append(stack, e), rooted)

RECURSIVE JoinSep(_)
JoinSep(stack) ==
    IF stack = << >> THEN << >>
    ELSE IF Len(stack) = 1 THEN stack[1]
    ELSE stack[1] \o <<"/">> \o JoinSep(Tail(stack))

\* path.Clean
Clean(p) ==
    IF p = << >> THEN <<".">>
    ELSE LET rooted == p[1] = "/"
             body == JoinSep(CleanRec(Split(p), 1, << >>, rooted))
         IN  IF rooted THEN <<"/">> \o body
             ELSE IF body = << >> THEN <<".">>
             ELSE body

\* path.Join(a, b): the non-empty elements joined by "/" and cleaned; ""
\* when both are empty.
PathJoin(a, b) ==
    IF a = << >> /\ b = << >> THEN << >>
    ELSE IF a = << >> THEN Clean(b)
    ELSE IF b = << >> THEN Clean(a)
    ELSE Clean(a \o <<"/">> \o b)

RECURSIVE Insert(_, _)
Insert(s, sorted) ==
    IF sorted = << >> THEN <<s>>
    ELSE IF StrLess(Head(sorted), s) THEN <<Head(sorted)>> \o Insert(s, Tail(sorted))
    ELSE <<s>> \o sorted

RECURSIVE SortNames(_)
\* sort.Sort(names) on a sort.StringSlice: ascending byte order.
SortNames(names) ==
    IF names = << >> THEN << >> ELSE Insert(Head(names), SortNames(Tail(names)))

---------------------------------------------------------------------------
(* The bucket *)

\* Content of the object at key k, empty when there is none.
ContentAt(st, k) == IF k \in DOMAIN st THEN st[k] ELSE << >>

\* The bucket after an object is written at key k.
PutObject(st, k, c) == [x \in DOMAIN st \cup {k} |-> IF x = k THEN c ELSE st[x]]

RECURSIVE Orders(_)
\* All orders in which a listing may return the keys of S.
Orders(S) ==
    IF S = {} THEN {<< >>}
    ELSE UNION {{<<k>> \o o : o \in Orders(S \ {k})} : k \in S}

\* No stream held.
NoWriter ==
    [kind |-> None, key |-> << >>, buf |-> << >>, prior |-> << >>, written |-> << >>]

\* No stream closed yet.
NoCommit ==
    [kind |-> None, key |-> << >>, prior |-> << >>, written |-> << >>, over |-> << >>]

NoResult ==
    [op |-> None, key |-> << >>, status |-> None, handle |-> FALSE,
     data |-> << >>, names |-> << >>, fault |-> None]

Init ==
    /\ fsErr \in BOOLEAN
    /\ fsPrefix \in Roots
    /\ store = << >>
    /\ writers = [c \in Clients |-> NoWriter]
    /\ commit = NoCommit
    /\ last = NoResult

---------------------------------------------------------------------------
(* Create, Open, Append and the streams they return *)

\* The key Create writes: path.Join(fs.prefix, name).
CreateKey(name) == PathJoin(fsPrefix, name)

\* What a call returned.  key is history: the key Create writes for the
\* call's path.
Result(op, name, status) ==
    [NoResult EXCEPT !.op = op, !.key = CreateKey(name), !.status = status]

\* A storage.Writer: buf is what it was given so far, and none of it is an
\* object before Close.  kind, prior and written are history: the call that
\* made the stream, the content stored at its key when that call was made,
\* and the bytes the caller wrote to it.
NewWriter(kind, key, copied, prior) ==
    [kind |-> kind, key |-> key, buf |-> copied, prior |-> prior, written |-> << >>]

\* Open as it would be with fs.prefix left out of the key.
OpenKeyNoPrefix(name) == Clean(name)

\* The key Open reads: path.Join(fs.prefix, name).
OpenKey(name) == PathJoin(fsPrefix, name)

\* Open as it would be with the backend's error returned unmapped.
OpenErrorUnmapped(exists, fault) ==
    IF fault THEN "backendErr" ELSE IF exists THEN "ok" ELSE "ErrObjectNotExist"

\* Open's error: storage.ErrObjectNotExist becomes simplefs.ErrNotFound,
\* any other error of NewReader is returned as it is.
OpenError(exists, fault) ==
    IF ~fault /\ ~exists THEN "NotFound"
    ELSE IF fault THEN "backendErr"
    ELSE "ok"

\* Open's first result is nil only with ErrNotFound; with any other outcome
\* it is &file{r: r}.
OpenHandle(status) == status # "NotFound"

\* Create: fs.err when construction failed, else a fresh writer and nil.
Create(c, name) ==
    /\ writers[c] = NoWriter
    /\ IF fsErr
         THEN /\ last' = Result("create", name, "fsErr")
              /\ UNCHANGED writers
         ELSE /\ writers' = [writers EXCEPT
                     ![c] = NewWriter("create", CreateKey(name), << >>, << >>)]
              /\ last' = [Result("create", name, "ok") EXCEPT !.handle = TRUE]
    /\ UNCHANGED <<fsErr, fsPrefix, store, commit>>

\* Open: fs.err is not looked at, so after a failed construction the call
\* goes through the nil fs.bucket and panics.  Otherwise the object's
\* content as of this call is what the returned stream reads to its end.
Open(name, fault) ==
    /\ IF fsErr
         THEN last' = Result("open", name, "panic")
         ELSE LET key == OpenKey(name)
                  status == OpenError(key \in DOMAIN store, fault)
              IN  last' = [Result("open", name, status) EXCEPT
                              !.handle = OpenHandle(status),
                              !.data = IF status = "ok" THEN store[key] ELSE << >>,
                              !.fault = IF fault THEN "open" ELSE None]
    /\ UNCHANGED <<fsErr, fsPrefix, store, writers, commit>>

\* Append as it would be with the copy of the existing content left out.
AppendCopiedNothing(data) == << >>

\* io.Copy(w, r) that ends without error: w holds all of r's bytes.
AppendCopied(data) == data

\* Append as it would be if it closed w on a copy error: the bytes copied
\* so far become the object.
CopyFailedClosing(st, key, partial) == PutObject(st, key, partial)

\* io.Copy(w, r) that ends with an error: Append returns nil and the error,
\* and w, holding the bytes copied so far, is neither closed nor returned,
\* so the bucket stays as it was.
CopyFailed(st, key, partial) == st

\* fileSystem.Append: Open, then Create, then the copy of the existing
\* content.  openFault and copyFault are the backend's failures in
\* NewReader and during the copy.
FsAppend(c, name, openFault, copyFault) ==
    /\ writers[c] = NoWriter
    /\ IF fsErr
         THEN /\ last' = Result("append", name, "panic")
              /\ UNCHANGED <<store, writers>>
         ELSE LET key == OpenKey(name)
                  exists == key \in DOMAIN store
                  err == OpenError(exists, openFault)
                  data == ContentAt(store, key)
              IN  IF err # "ok" /\ err # "NotFound"
                    THEN /\ ~copyFault
                         /\ last' = [Result("append", name, err) EXCEPT
                                         !.fault = IF openFault THEN "open" ELSE None]
                         /\ UNCHANGED <<store, writers>>
                  ELSE IF err = "ok" /\ copyFault
                    THEN /\ \E cut \in 0..Len(data) :
                              store' = CopyFailed(store, CreateKey(name), SubSeq(data, 1, cut))
                         /\ last' = [Result("append", name, "backendErr") EXCEPT
                                         !.fault = "copy"]
                         /\ UNCHANGED writers
                  ELSE /\ ~copyFault
                       /\ writers' = [writers EXCEPT ![c] =
                              NewWriter("append", CreateKey(name),
                                        IF err = "ok" THEN AppendCopied(data) ELSE << >>,
                                        data)]
                       /\ last' = [Result("append", name, "ok") EXCEPT !.handle = TRUE]
                       /\ UNCHANGED store
    /\ UNCHANGED <<fsErr, fsPrefix, commit>>

\* Write on a stream Create or Append returned: the byte joins the pending
\* content.
Write(c, b) ==
    /\ writers[c] # NoWriter
    /\ Len(writers[c].buf) < MaxLen
    /\ writers' = [writers EXCEPT ![c].buf = Append(@, b), ![c].written = Append(@, b)]
    /\ last' = [NoResult EXCEPT !.op = "write", !.status = "ok"]
    /\ UNCHANGED <<fsErr, fsPrefix, store, commit>>

\* A writer as it would be with a precondition on the object it replaces.
PreconditionUnchanged(w, current) == current = w.prior

\* The writer of Create carries no storage.Conditions: the backend accepts
\* its Close whatever is stored at the key by then (current).
PreconditionHolds(w, current) == TRUE

\* Close on a stream Create or Append returned: the pending content becomes
\* the object at the stream's key, replacing what is there, unless the
\* backend fails (fault), and then the bucket stays as it was.  commit
\* keeps the history of the Close that stored an object: what the stream's
\* path held when the stream was made (prior), what the caller wrote, and
\* what the Close replaced (over).
Close(c, fault) ==
    /\ writers[c] # NoWriter
    /\ LET w == writers[c]
           current == ContentAt(store, w.key)
           accepted == ~fault /\ PreconditionHolds(w, current)
       IN  /\ w.key \in DOMAIN store \/ Cardinality(DOMAIN store) < MaxObjects
           /\ IF accepted
                THEN /\ store' = PutObject(store, w.key, w.buf)
                     /\ commit' = [kind |-> w.kind, key |-> w.key, prior |-> w.prior,
                                   written |-> w.written, over |-> current]
                ELSE UNCHANGED <<store, commit>>
           /\ writers' = [writers EXCEPT ![c] = NoWriter]
           /\ last' = [NoResult EXCEPT !.op = "close", !.key = w.key,
                           !.fault = IF fault THEN "close" ELSE None,
                           !.status = IF accepted THEN "ok" ELSE "backendErr"]
    /\ UNCHANGED <<fsErr, fsPrefix>>

---------------------------------------------------------------------------
(* ReadDir *)

\* ReadDir as it would be without the test for the queried path itself.
IsFileNever(k, prefix) == FALSE

\* attrs.Name == prefix: the listing holds the queried path itself.
IsFile(k, prefix) == k = prefix

\* attrs.Name[n+1:], n the length of the prefix.
StripPrefix(k, n) == SubSeq(k, n + 2, Len(k))

RECURSIVE ReadDirLoop(_, _, _, _, _, _)
\* The loop over it.Next(): the i-th call returns an error when errAt = i,
\* iterator.Done after the last key, and listing[i] otherwise.  The result
\* is ReadDir's: the status and, with "ok", the sorted names.
ReadDirLoop(listing, errAt, prefix, i, names, found) ==
    IF errAt = i THEN [status |-> "backendErr", names |-> << >>]
    ELSE IF i > Len(listing) THEN
        IF ~found THEN [status |-> "NotFound", names |-> << >>]
        ELSE [status |-> "ok", names |-> SortNames(names)]
    ELSE LET k == listing[i]
             n == Len(prefix)
         IN  IF IsFile(k, prefix) THEN [status |-> "NotFound", names |-> << >>]
             ELSE IF Len(k) < n + 1 THEN [status |-> "panic", names |-> << >>]
             ELSE IF CountSep(StripPrefix(k, n)) > 0
                 THEN ReadDirLoop(listing, errAt, prefix, i + 1, names, TRUE)
             ELSE ReadDirLoop(listing, errAt, prefix, i + 1,
                              Append(names, StripPrefix(k, n)), TRUE)

\* The keys a storage.Query{Prefix: prefix} returns.
Matching(st, prefix) == {k \in DOMAIN st : HasPrefix(k, prefix)}

\* ReadDir: fs.err is not looked at, so after a failed construction the
\* listing goes through the nil fs.bucket and panics.  listing is the order
\* in which the backend returns the matching keys, errAt the call of
\* it.Next() that fails (0: none).
ReadDir(dir) ==
    /\ IF fsErr
         THEN last' = Result("readDir", dir, "panic")
         ELSE LET prefix == PathJoin(fsPrefix, dir)
                  Returned(listing, errAt) ==
                      LET r == ReadDirLoop(listing, errAt, prefix, 1, << >>, FALSE)
                      IN  [Result("readDir", dir, r.status) EXCEPT
                              !.names = r.names,
                              !.handle = r.status = "ok",
                              !.fault = IF errAt # 0 THEN "list" ELSE None]
              IN  last' \in {Returned(listing, errAt) :
                                listing \in Orders(Matching(store, prefix)),
                                errAt \in 0..(Cardinality(Matching(store, prefix)) + 1)}
    /\ UNCHANGED <<fsErr, fsPrefix, store, writers, commit>>

Next ==
    \/ \E c \in Clients, name \in StreamNames : Create(c, name)
    \/ \E name \in StreamNames, fault \in BOOLEAN : Open(name, fault)
    \/ \E c \in Clients, name \in StreamNames, openFault, copyFault \in BOOLEAN :
           FsAppend(c, name, openFault, copyFault)
    \/ \E c \in Clients : \E b \in BytesOf(c) : Write(c, b)
    \/ \E c \in Clients, fault \in BOOLEAN : Close(c, fault)

Spec == Init /\ [][Next]_vars

\* The runs that fill a bucket and list it: one caller creates empty
\* objects, ReadDir lists.
NextDir ==
    \/ \E name \in DirFiles : Create("c1", name)
    \/ \E fault \in BOOLEAN : Close("c1", fault)
    \/ \E dir \in DirNames : ReadDir(dir)

SpecDir == Init /\ [][NextDir]_vars

---------------------------------------------------------------------------
(* Properties *)

\* The names of a listing, one after the other, strictly ascending.
StrictlyAscending(names) ==
    \A i \in 1..(Len(names) - 1) : StrLess(names[i], names[i + 1])

\* The names n without separator for which key dir/n is stored.
DirectChildren(st, dirKey) ==
    {StripPrefix(k, Len(dirKey)) :
        k \in {x \in DOMAIN st : /\ HasPrefix(x, dirKey \o <<"/">>)
                                 /\ CountSep(StripPrefix(x, Len(dirKey))) = 0}}

\* C1: an Open of path p that follows, with no object stored in between, the
\* Close of a stream that Create made for p succeeds and reads exactly the
\* bytes written to that stream, whatever the Close replaced.
C1_RoundTrip ==
    (/\ last.op = "open"
     /\ last.fault = None
     /\ commit.kind = "create"
     /\ commit.key = last.key)
    => (last.status = "ok" /\ last.data = commit.written)

C1_Witness ==
    /\ last.op = "open"
    /\ last.status = "ok"
    /\ commit.kind = "create"
    /\ commit.key = last.key
    /\ commit.written # << >>
    /\ commit.over # << >>
    /\ commit.over # commit.written
    /\ last.data = commit.written

\* C2: on a constructed file system whose backend raises no error, Append
\* returns a stream and no error; and an Open of p that follows the Close of
\* a stream Append made for p, the Close having replaced the content c1 the
\* path held when Append was called, reads c1 followed by the bytes written
\* to the stream (with c1 empty when the path held no object).
C2_AppendThenRead ==
    /\ (last.op = "append" /\ last.fault = None /\ ~fsErr)
         => (last.status = "ok" /\ last.handle)
    /\ (/\ last.op = "open"
        /\ last.fault = None
        /\ commit.kind = "append"
        /\ commit.key = last.key
        /\ commit.over = commit.prior)
         => (last.status = "ok" /\ last.data = commit.prior \o commit.written)

C2_Witness ==
    /\ last.op = "open"
    /\ last.status = "ok"
    /\ commit.kind = "append"
    /\ commit.key = last.key
    /\ commit.over = commit.prior
    /\ commit.prior # << >>
    /\ commit.written # << >>
    /\ last.data = commit.prior \o commit.written

\* C3: the names of a successful listing of dir are exactly the names n
\* without separator for which the key dir/n is stored (stated for the
\* directories whose key is not empty, where dir/n is prefix, "/", n).
C3_ListsDirectChildren ==
    (last.op = "readDir" /\ last.status = "ok" /\ last.key # << >>)
    => {last.names[i] : i \in 1..Len(last.names)} = DirectChildren(store, last.key)

\* C4: when no stored key starts with dir/, ReadDir(dir) on a constructed
\* file system whose listing raises no error returns NotFound (stated for
\* the directories whose key is not empty).
C4_NoChildNotFound ==
    (/\ last.op = "readDir"
     /\ last.key # << >>
     /\ ~fsErr
     /\ last.fault = None
     /\ ~\E k \in DOMAIN store : HasPrefix(k, last.key \o <<"/">>))
    => last.status = "NotFound"

\* C5: the names of a successful listing are strictly ascending in byte
\* order (so pairwise distinct).
C5_SortedDistinct ==
    (last.op = "readDir" /\ last.status = "ok") => StrictlyAscending(last.names)

\* C6: when the queried path itself is a stored key and the listing raises
\* no error, ReadDir returns NotFound, whatever else is stored and in
\* whatever order the listing returns the keys.
C6_FileIsNoDirectory ==
    (/\ last.op = "readDir"
     /\ last.fault = None
     /\ last.key \in DOMAIN store)
    => (last.status = "NotFound" /\ last.names = << >>)

C6_Witness ==
    /\ last.op = "readDir"
    /\ last.fault = None
    /\ last.key \in DOMAIN store
    /\ \E k \in DOMAIN store : HasPrefix(k, last.key \o <<"/">>)
    /\ last.status = "NotFound"

\* C7: on a constructed file system whose backend raises no other error,
\* Open of a path at whose key no object is stored returns NotFound and no
\* file.
C7_OpenMissing ==
    (/\ last.op = "open"
     /\ ~fsErr
     /\ last.fault = None
     /\ last.key \notin DOMAIN store)
    => (last.status = "NotFound" /\ ~last.handle)

C7_Witness ==
    /\ last.op = "open"
    /\ last.status = "NotFound"
    /\ ~last.handle
    /\ last.key \notin DOMAIN store
    /\ \E c \in Clients : writers[c].key = last.key /\ writers[c].buf # << >>

\* C8: a step in which Append returns an error, or in which the Close of a
\* stream is refused, leaves every stored object as it was.
C8_FailedAppendKeepsObject ==
    [][(last'.status # "ok" /\ last'.op \in {"append", "close"}) => store' = store]_vars

C8_Witness ==
    /\ last.op = "append"
    /\ last.fault = "copy"
    /\ last.status = "backendErr"
    /\ last.key \in DOMAIN store
    /\ Len(store[last.key]) = MaxLen

\* C9: a Close that the backend does not fail succeeds whatever was stored
\* at the key since the stream was made; when the stream is Append's and the
\* Close replaces content other than what Append had read, the object is
\* what Append read followed by what was written to the stream.
C9_CloseOverwritesUnseen ==
    /\ (last.op = "close" /\ last.fault = None) => last.status = "ok"
    /\ (/\ last.op = "close"
        /\ last.status = "ok"
        /\ commit.kind = "append"
        /\ commit.over # commit.prior)
         => (/\ commit.key = last.key
             /\ store[commit.key] = commit.prior \o commit.written)

C9_Witness ==
    /\ last.op = "close"
    /\ last.status = "ok"
    /\ commit.kind = "append"
    /\ commit.over # commit.prior
    /\ commit.over # << >>
    /\ ~HasPrefix(store[commit.key], commit.over)
    /\ store[commit.key] = commit.prior \o commit.written

\* C10: after a failed construction every Create, Open, Append and ReadDir
\* returns the stored construction error.
C10_FailedInstanceReturnsErr ==
    (fsErr /\ last.op \in {"create", "open", "append", "readDir"})
    => last.status = "fsErr"

============================================================================
